---- MODULE Spec2Model ----
(***************************************************************************)
(* Model of api/index.js: the project service with its three routes        *)
(* (POST /api/projects/create, GET /api/projects, GET /health), the static *)
(* retrieval of uploaded files, the Record Store (the Project collection)  *)
(* and the content directory (api/uploads).                                *)
(*                                                                         *)
(* Optional values (a JSON property or a document path that may be         *)
(* undefined) are sequences of length at most one: << >> is undefined and  *)
(* <<v>> is the value v.                                                   *)
(***************************************************************************)
EXTENDS Integers, Sequences, FiniteSets, TLC

VARIABLES
  store,  \* the Record Store: the persisted Project documents, in insertion order
  dir,    \* the content directory: stored filename |-> the file written under it
  now,    \* Date.now()
  dbUp,   \* whether the connection to the Record Store is up
  reqs    \* the create requests received so far, each with its handler's position

vars == <<store, dir, now, dbUp, reqs>>

(***************************************************************************)
(* Bounds of the model.                                                    *)
(***************************************************************************)
MaxRequests == 2
MaxTime == 1
MaxRand == 1
MaxWideRequests == 1

(***************************************************************************)
(* String helpers: String.prototype.startsWith, RegExp.prototype.test for  *)
(* an unanchored alternation of literals, String.prototype.toLowerCase and *)
(* path.extname.                                                           *)
(***************************************************************************)
StartsWith(s, p) == Len(s) >= Len(p) /\ SubSeq(s, 1, Len(p)) = p

Contains(s, p) == \E i \in 1..(Len(s) - Len(p) + 1) : SubSeq(s, i, i + Len(p) - 1) = p

UpperLetters == "ABCDEFGHIJKLMNOPQRSTUVWXYZ"

LowerLetters == "abcdefghijklmnopqrstuvwxyz"

LowerChar(c) ==
  IF \E i \in 1..26 : SubSeq(UpperLetters, i, i) = c
  THEN LET i == CHOOSE k \in 1..26 : SubSeq(UpperLetters, k, k) = c
       IN  SubSeq(LowerLetters, i, i)
  ELSE c

RECURSIVE ToLowerCase(_)
ToLowerCase(s) ==
  IF Len(s) = 0 THEN s
  ELSE LowerChar(SubSeq(s, 1, 1)) \o ToLowerCase(SubSeq(s, 2, Len(s)))

LastDot(s) ==
  LET dots == {i \in 1..Len(s) : SubSeq(s, i, i) = "."}
  IN  IF dots = {} THEN 0 ELSE CHOOSE i \in dots : \A j \in dots : j <= i

ExtName(name) ==
  IF LastDot(name) <= 1 THEN "" ELSE SubSeq(name, LastDot(name), Len(name))

(***************************************************************************)
(* The upload configuration: fileFilter, limits.fileSize, storage.filename *)
(***************************************************************************)
FileTypes == {"jpeg", "jpg", "png", "gif"}

FileTypesTest(s) == \E p \in FileTypes : Contains(s, p)

FileFilter(file) ==
  LET mimetype == FileTypesTest(file.mimetype)
      extname == FileTypesTest(ToLowerCase(ExtName(file.originalname)))
  IN  mimetype /\ extname

FileSizeLimit == 5 * 1024 * 1024

Filename(t, rnd, file) ==
  "project-" \o ToString(t) \o "-" \o ToString(rnd) \o ExtName(file.originalname)

FieldName == "coverImage"

FilterMessage == "Only image files are allowed (jpeg, jpg, png, gif)"

(***************************************************************************)
(* upload(req, res, cb): multer's single('coverImage') with the disk       *)
(* storage, the file filter and the size limit above.  A file under        *)
(* another field is refused before the filter runs; a file the filter      *)
(* passes is written under its generated name, and removed again when the  *)
(* size limit is hit while it is written.  Whether a file of exactly       *)
(* FileSizeLimit bytes hits the limit depends on the installed multipart   *)
(* parser, so both outcomes are possible there.                            *)
(***************************************************************************)
LimitHit(size) ==
  IF size > FileSizeLimit THEN {TRUE}
  ELSE IF size = FileSizeLimit THEN {TRUE, FALSE}
  ELSE {FALSE}

UploadError(file, hit) ==
  IF file = << >> THEN ""
  ELSE IF file[1].fieldname # FieldName THEN "Unexpected field"
  ELSE IF ~FileFilter(file[1]) THEN FilterMessage
  ELSE IF hit THEN "File too large"
  ELSE ""

Written(file) == file # << >> /\ file[1].fieldname = FieldName /\ FileFilter(file[1])

Without(d, name) == [n \in DOMAIN d \ {name} |-> d[n]]

With(d, name, content) == [n \in DOMAIN d \cup {name} |-> IF n = name THEN content ELSE d[n]]

UploadDir(d, i, t, rnd, file, hit) ==
  IF ~Written(file) THEN d
  ELSE IF hit THEN Without(d, Filename(t, rnd, file[1]))
  ELSE With(d, Filename(t, rnd, file[1]),
            [owner |-> i, originalname |-> file[1].originalname, size |-> file[1].size])

HandleFileUpload(t, rnd, file, hit) ==
  [err |-> UploadError(file, hit),
   file |-> IF file # << >> /\ UploadError(file, hit) = ""
            THEN << [filename |-> Filename(t, rnd, file[1])] >> ELSE << >>]

(***************************************************************************)
(* The Project model: the document the create route builds, with the       *)
(* schema's createdAt default, and the validation save() runs.             *)
(***************************************************************************)
OrEmptyArray(v) == IF v = << >> THEN << >> ELSE v[1]

NewProject_SwappedFields(i, formData, coverImageUrl, coverImagePath, t) ==
  [id |-> i,
   title |-> formData.title,
   coverImageUrl |-> coverImageUrl,
   coverImagePath |-> coverImagePath,
   liveLink |-> formData.liveLink,
   description |-> formData.details,
   techStack |-> OrEmptyArray(formData.techStack),
   price |-> formData.price,
   details |-> formData.description,
   createdAt |-> t]

NewProject(i, formData, coverImageUrl, coverImagePath, t) ==
  [id |-> i,
   title |-> formData.title,
   coverImageUrl |-> coverImageUrl,
   coverImagePath |-> coverImagePath,
   liveLink |-> formData.liveLink,
   description |-> formData.description,
   techStack |-> OrEmptyArray(formData.techStack),
   price |-> formData.price,
   details |-> formData.details,
   createdAt |-> t]

Required_AllowsEmpty(v) == v # << >>

Required(v) == v # << >> /\ Len(v[1]) > 0

Validate_TitleOnly(doc) == Required(doc.title)

Validate(doc) == Required(doc.title) /\ Required(doc.description) /\ Required(doc.details)

(***************************************************************************)
(* The create route: the cover image fields (lines 90-115).                *)
(***************************************************************************)
Truthy(v) == v # << >> /\ v[1] # ""

Protocol == "http"

CoverImagePath(file) == IF file # << >> THEN "/uploads/" \o file[1].filename ELSE ""

UploadedUrl(host, file) ==
  IF file # << >> THEN Protocol \o "://" \o host \o CoverImagePath(file) ELSE ""

CoverImageUrl_FormFirst(host, file, formData) ==
  IF Truthy(formData.coverImageUrl)
  THEN formData.coverImageUrl[1]
  ELSE UploadedUrl(host, file)

CoverImageUrl(host, file, formData) ==
  IF UploadedUrl(host, file) = "" /\ Truthy(formData.coverImageUrl)
  THEN formData.coverImageUrl[1]
  ELSE UploadedUrl(host, file)

(***************************************************************************)
(* Responses.  A JSON body is the record of its properties; the error page *)
(* of the framework's default error handler has none of them.              *)
(***************************************************************************)
Created(project) ==
  [status |-> 201, message |-> <<"Project created successfully">>, error |-> << >>,
   project |-> <<project>>]

BadRequest(message) ==
  [status |-> 400, message |-> << >>, error |-> <<message>>, project |-> << >>]

ServerError ==
  [status |-> 500, message |-> << >>, error |-> <<"Internal server error">>, project |-> << >>]

ErrorPage(status) ==
  [status |-> status, message |-> << >>, error |-> << >>, project |-> << >>]

(***************************************************************************)
(* Requests to the create route.  payload is what the body carries where   *)
(* the form data is read from (the JSON body, or the multipart data        *)
(* field): "object" with the form data, "malformed", "missing" (multipart  *)
(* without a data field) or "toolarge" (a JSON body over the parser's      *)
(* limit).                                                                 *)
(***************************************************************************)
JsonType == "application/json"

MultipartType == "multipart/form-data; boundary=x"

IsMultipart(r) == StartsWith(r.ctype, "multipart/form-data")

EmptyForm ==
  [title |-> << >>, coverImageUrl |-> << >>, liveLink |-> << >>, description |-> << >>,
   techStack |-> << >>, price |-> << >>, details |-> << >>]

BaseForm ==
  [title |-> <<"A">>, coverImageUrl |-> << >>, liveLink |-> << >>, description |-> <<"d">>,
   techStack |-> << >>, price |-> << >>, details |-> <<"x">>]

UrlForm == [BaseForm EXCEPT !.coverImageUrl = <<"http://img.test/c.png">>]

BaseFile ==
  [fieldname |-> FieldName, originalname |-> "a.png", mimetype |-> "image/png", size |-> 1]

Request(ctype, payload, form, file) ==
  [ctype |-> ctype, payload |-> payload, form |-> form, file |-> file, host |-> "api.test"]

(***************************************************************************)
(* The requests the model sends.  Requests are the shapes the interleaved  *)
(* specification Spec draws from; WideRequests varies one part of the      *)
(* request at a time and is what the sequential specification SpecWide     *)
(* draws from.                                                             *)
(***************************************************************************)
TextFile == [BaseFile EXCEPT !.originalname = "notes.txt", !.mimetype = "text/plain"]

Requests ==
  { Request(JsonType, "object", BaseForm, << >>),
    Request(JsonType, "object", [BaseForm EXCEPT !.title = << >>], << >>),
    Request(MultipartType, "object", UrlForm, <<BaseFile>>),
    Request(MultipartType, "object", BaseForm, <<TextFile>>) }

WideForms ==
  {BaseForm, UrlForm}
  \cup {[BaseForm EXCEPT !.title = v] : v \in {<< >>, <<"">>, <<"B">>}}
  \cup {[BaseForm EXCEPT !.description = v] : v \in {<< >>, <<"">>}}
  \cup {[BaseForm EXCEPT !.details = v] : v \in {<< >>, <<"">>}}
  \cup {[BaseForm EXCEPT !.coverImageUrl = <<"">>]}
  \cup {[BaseForm EXCEPT !.techStack = v] : v \in {<< << >> >>, << <<"js", "tla">> >>}}
  \cup {[BaseForm EXCEPT !.liveLink = <<"http://live.test">>, !.price = <<"10">>]}

WideFiles ==
  {BaseFile, TextFile}
  \cup {[BaseFile EXCEPT !.originalname = n] :
          n \in {"a.txt", "a.gift", "A.PNG", "a.jpeg", "png", "a.png.exe"}}
  \cup {[BaseFile EXCEPT !.mimetype = m] :
          m \in {"text/plain", "image/jpeg", "application/x-png-archive"}}
  \cup {[BaseFile EXCEPT !.size = n] :
          n \in {FileSizeLimit - 1, FileSizeLimit, FileSizeLimit + 1}}
  \cup {[TextFile EXCEPT !.size = FileSizeLimit + 1]}
  \cup {[BaseFile EXCEPT !.fieldname = "image"]}

WideRequests ==
  {Request(JsonType, "object", f, << >>) : f \in WideForms}
  \cup {Request(JsonType, p, EmptyForm, << >>) : p \in {"malformed", "toolarge"}}
  \cup {Request(MultipartType, "object", f, << >>) : f \in WideForms}
  \cup {Request(MultipartType, "object", f, <<file>>) :
          f \in {BaseForm, UrlForm, [BaseForm EXCEPT !.title = << >>]}, file \in WideFiles}
  \cup {Request(MultipartType, p, EmptyForm, file) :
          p \in {"missing", "malformed"}, file \in {<< >>, <<BaseFile>>, <<TextFile>>}}

(***************************************************************************)
(* The create route, app.post('/api/projects/create').  The handler runs   *)
(* to its first await in one step: a multipart request waits for the       *)
(* upload, a JSON request (once the body parser has read it) goes on to    *)
(* project.save().  The upload, and the code from its end to               *)
(* project.save(), read the clock within one tick.                         *)
(***************************************************************************)
Handler(r, pc, doc, sends) == [req |-> r, pc |-> pc, doc |-> doc, sends |-> sends]

FormData(i, r, file, t) ==
  IF r.payload # "object"
  THEN Handler(r, "done", << >>, <<ServerError>>)
  ELSE Handler(r, "saving",
               <<NewProject(i, r.form, CoverImageUrl(r.host, file, r.form),
                            CoverImagePath(file), t)>>,
               << >>)

ExpressJson(i, r, t) ==
  IF r.payload = "malformed" THEN Handler(r, "done", << >>, <<ErrorPage(400)>>)
  ELSE IF r.payload = "toolarge" THEN Handler(r, "done", << >>, <<ErrorPage(413)>>)
  ELSE FormData(i, r, << >>, t)

Receive(r) ==
  /\ reqs' = Append(reqs, IF IsMultipart(r)
                          THEN Handler(r, "uploading", << >>, << >>)
                          ELSE ExpressJson(Len(reqs) + 1, r, now))
  /\ UNCHANGED <<store, dir, now, dbUp>>

AfterUpload_ServerError(i, h, up, t) ==
  IF up.err # ""
  THEN Handler(h.req, "done", << >>, <<ServerError>>)
  ELSE FormData(i, h.req, up.file, t)

AfterUpload(i, h, up, t) ==
  IF up.err # ""
  THEN Handler(h.req, "done", << >>, <<BadRequest(up.err)>>)
  ELSE FormData(i, h.req, up.file, t)

Upload(i) ==
  /\ reqs[i].pc = "uploading"
  /\ \E rnd \in 0..MaxRand :
       \E hit \in (IF reqs[i].req.file = << >> THEN {FALSE}
                   ELSE LimitHit(reqs[i].req.file[1].size)) :
         /\ dir' = UploadDir(dir, i, now, rnd, reqs[i].req.file, hit)
         /\ reqs' = [reqs EXCEPT ![i] =
                AfterUpload(i, @, HandleFileUpload(now, rnd, reqs[i].req.file, hit), now)]
  /\ UNCHANGED <<store, now, dbUp>>

SaveResult(h, up) ==
  IF Validate(h.doc[1]) /\ up
  THEN Handler(h.req, "done", h.doc, <<Created(h.doc[1])>>)
  ELSE Handler(h.req, "done", h.doc, <<ServerError>>)

SaveStore_Replace(st, h, up) == IF Validate(h.doc[1]) /\ up THEN <<h.doc[1]>> ELSE st

SaveStore(st, h, up) == IF Validate(h.doc[1]) /\ up THEN Append(st, h.doc[1]) ELSE st

Save(i) ==
  /\ reqs[i].pc = "saving"
  /\ store' = SaveStore(store, reqs[i], dbUp)
  /\ reqs' = [reqs EXCEPT ![i] = SaveResult(@, dbUp)]
  /\ UNCHANGED <<dir, now, dbUp>>

(***************************************************************************)
(* The other routes: GET /api/projects, GET /health and the static         *)
(* retrieval GET /uploads/<name>.  None of them writes anything: each is   *)
(* the set of responses it can give in the current state, and a step that  *)
(* changes nothing.  A sort leaves documents of equal createdAt in any     *)
(* order.                                                                  *)
(***************************************************************************)
SortCreatedAtAsc(st) ==
  LET n == Len(st)
      orders == {p \in [1..n -> 1..n] :
                   /\ \A a, b \in 1..n : a # b => p[a] # p[b]
                   /\ \A a, b \in 1..n : a < b => st[p[a]].createdAt <= st[p[b]].createdAt}
  IN  {[k \in 1..n |-> st[p[k]]] : p \in orders}

SortCreatedAtDesc(st) ==
  LET n == Len(st)
      orders == {p \in [1..n -> 1..n] :
                   /\ \A a, b \in 1..n : a # b => p[a] # p[b]
                   /\ \A a, b \in 1..n : a < b => st[p[a]].createdAt >= st[p[b]].createdAt}
  IN  {[k \in 1..n |-> st[p[k]]] : p \in orders}

ListResponses(st, up) ==
  IF up
  THEN {[status |-> 200, items |-> items, error |-> << >>] : items \in SortCreatedAtDesc(st)}
  ELSE {[status |-> 500, items |-> << >>, error |-> <<"Internal server error">>]}

HealthResponse == [status |-> 200, body |-> "OK"]

StaticResponse(d, name) == [status |-> IF name \in DOMAIN d THEN 200 ELSE 404]

ListProjects ==
  /\ ListResponses(store, dbUp) # {}
  /\ UNCHANGED vars

Health ==
  /\ HealthResponse.status = 200
  /\ UNCHANGED vars

Static ==
  /\ \E name \in DOMAIN dir \cup {"project-0-0.bmp"} :
       StaticResponse(dir, name).status \in {200, 404}
  /\ UNCHANGED vars

(***************************************************************************)
(* The environment: the clock and the connection to the Record Store.      *)
(***************************************************************************)
Tick ==
  /\ now < MaxTime
  /\ now' = now + 1
  /\ UNCHANGED <<store, dir, dbUp, reqs>>

DbConnect ==
  /\ ~dbUp
  /\ dbUp' = TRUE
  /\ UNCHANGED <<store, dir, now, reqs>>

DbDisconnect ==
  /\ dbUp
  /\ dbUp' = FALSE
  /\ UNCHANGED <<store, dir, now, reqs>>

(***************************************************************************)
(* Spec: create requests handled concurrently, with the other routes.      *)
(***************************************************************************)
Init ==
  /\ store = << >>
  /\ dir = [n \in {} |-> 0]
  /\ now = 0
  /\ dbUp \in BOOLEAN
  /\ reqs = << >>

Create == \E r \in Requests : Len(reqs) < MaxRequests /\ Receive(r)

UploadStep == \E i \in DOMAIN reqs : Upload(i)

SaveStep == \E i \in DOMAIN reqs : Save(i)

Next ==
  \/ Create
  \/ UploadStep
  \/ SaveStep
  \/ ListProjects
  \/ Health
  \/ Static
  \/ Tick
  \/ DbConnect
  \/ DbDisconnect

Spec == Init /\ [][Next]_vars

(***************************************************************************)
(* SpecWide: create requests of every shape, handled one after another,    *)
(* with the other routes.  The Record Store and the content directory      *)
(* outlive the process: it starts on empty ones, or on a project and its   *)
(* cover image left by an earlier run.                                     *)
(***************************************************************************)
SeedFile == [filename |-> Filename(0, 0, BaseFile)]

SeedProject ==
  NewProject(0, UrlForm, CoverImageUrl("api.test", <<SeedFile>>, UrlForm),
             CoverImagePath(<<SeedFile>>), 0)

InitWide ==
  /\ \E seeded \in BOOLEAN :
       /\ store = IF seeded THEN <<SeedProject>> ELSE << >>
       /\ dir = IF seeded
                THEN With([n \in {} |-> 0], SeedFile.filename,
                          [owner |-> 0, originalname |-> BaseFile.originalname,
                           size |-> BaseFile.size])
                ELSE [n \in {} |-> 0]
  /\ now = 0
  /\ dbUp \in BOOLEAN
  /\ reqs = << >>

AllDone == \A i \in DOMAIN reqs : reqs[i].pc = "done"

CreateWide == \E r \in WideRequests : Len(reqs) < MaxWideRequests /\ AllDone /\ Receive(r)

NextWide ==
  \/ CreateWide
  \/ UploadStep
  \/ SaveStep
  \/ ListProjects
  \/ Health
  \/ Static
  \/ DbConnect
  \/ DbDisconnect

SpecWide == InitWide /\ [][NextWide]_vars

(***************************************************************************)
(* Vocabulary of the properties.                                           *)
(***************************************************************************)
Present(v) == v # << >> /\ v[1] # ""

HasRequiredFields(r) ==
  /\ r.payload = "object"
  /\ Present(r.form.title) /\ Present(r.form.description) /\ Present(r.form.details)

MissesRequiredField(r) ==
  /\ r.payload = "object"
  /\ ~(Present(r.form.title) /\ Present(r.form.description) /\ Present(r.form.details))

IsDone(i) == reqs[i].pc = "done"

Status(i) == reqs[i].sends[1].status

\* the step completes request i: it sends the response
Completes(i) ==
  /\ i \in DOMAIN reqs'
  /\ reqs'[i].pc = "done"
  /\ (i \in DOMAIN reqs => reqs[i].pc # "done")

Answer(i) == reqs'[i].sends[1]

AllowedExtensions == {".jpg", ".jpeg", ".png", ".gif"}

(***************************************************************************)
(* C1: a create request (JSON or multipart) whose form data carries        *)
(* non-empty title, description and details, whose upload (if any) was     *)
(* accepted (it is not answered 400), completing while the store is        *)
(* available, is answered 201 once, persists exactly one new Project, and  *)
(* the returned project's title, description and details are the submitted *)
(* ones.                                                                   *)
(***************************************************************************)
C1_ValidCreateIsCreated ==
  [][\A i \in DOMAIN reqs' :
       (Completes(i) /\ HasRequiredFields(reqs'[i].req) /\ dbUp /\ Answer(i).status # 400)
       => /\ Len(reqs'[i].sends) = 1
          /\ Answer(i).status = 201
          /\ Answer(i).project # << >>
          /\ store' = Append(store, Answer(i).project[1])
          /\ Answer(i).project[1].title = reqs'[i].req.form.title
          /\ Answer(i).project[1].description = reqs'[i].req.form.description
          /\ Answer(i).project[1].details = reqs'[i].req.form.details]_vars

C1_Witness ==
  \E i \in DOMAIN reqs :
    /\ IsDone(i) /\ Status(i) = 201
    /\ reqs[i].req.file # << >>
    /\ \E k \in DOMAIN store : store[k] = reqs[i].sends[1].project[1]

(***************************************************************************)
(* C2 as claimed: every create request whose form data misses title,       *)
(* description or details (absent or empty) is answered 500 and leaves the *)
(* persisted Projects as they were.                                        *)
(***************************************************************************)
C2_MissingFieldIs500 ==
  [][\A i \in DOMAIN reqs' :
       (Completes(i) /\ MissesRequiredField(reqs'[i].req))
       => (Answer(i).status = 500 /\ store' = store)]_vars

(***************************************************************************)
(* C2 amended: such a request leaves the persisted Projects as they were   *)
(* and is answered 500 by the rejected save when its upload (if any) was   *)
(* accepted, and 400 by the upload step when its upload was rejected.      *)
(***************************************************************************)
C2_MissingFieldNotPersisted ==
  [][\A i \in DOMAIN reqs' :
       (Completes(i) /\ MissesRequiredField(reqs'[i].req))
       => /\ store' = store
          /\ i \in DOMAIN reqs
          /\ \/ reqs[i].pc = "saving" /\ Answer(i) = ServerError
             \/ /\ reqs[i].pc = "uploading"
                /\ Answer(i).status = 400
                /\ reqs[i].req.file # << >>
                /\ \E hit \in BOOLEAN :
                     Answer(i).error = <<UploadError(reqs[i].req.file, hit)>>]_vars

C2_Witness ==
  /\ store # << >>
  /\ \E i \in DOMAIN reqs :
       /\ IsDone(i) /\ Status(i) = 500
       /\ reqs[i].req.payload = "object"
       /\ reqs[i].req.form.description = <<"">>
       /\ reqs[i].doc # << >>

(***************************************************************************)
(* C3 as claimed: every file stored in the content directory has an        *)
(* extension in {jpg, jpeg, png, gif} and a size of at most 5 MiB.         *)
(***************************************************************************)
C3_StoredFilesAreImages ==
  \A name \in DOMAIN dir :
    /\ ToLowerCase(ExtName(name)) \in AllowedExtensions
    /\ dir[name].size <= FileSizeLimit

(***************************************************************************)
(* C4: in every state reached by create requests of which exactly N were   *)
(* answered 201 so far, every listing GET /api/projects returns (status    *)
(* 200) has N entries, one per created Project and none twice, most recent *)
(* createdAt first; creates answered 400 or 500 contribute no entry.       *)
(***************************************************************************)
CreatedProjects == {reqs[i].sends[1].project[1] : i \in {j \in DOMAIN reqs : IsDone(j) /\ Status(j) = 201}}

NumberCreated == Cardinality({i \in DOMAIN reqs : IsDone(i) /\ Status(i) = 201})

C4_ListReturnsCreated ==
  \A response \in ListResponses(store, dbUp) :
    response.status = 200 =>
      /\ Len(response.items) = NumberCreated
      /\ {response.items[k] : k \in DOMAIN response.items} = CreatedProjects
      /\ \A a, b \in DOMAIN response.items :
           a < b => response.items[a].createdAt >= response.items[b].createdAt

C4_Witness ==
  /\ \E response \in ListResponses(store, dbUp) : response.status = 200
  /\ NumberCreated = 2
  /\ Len(store) = 2
  /\ store[1].createdAt < store[2].createdAt

(***************************************************************************)
(* C5 as claimed: any two accepted uploads, concurrent ones (same          *)
(* timestamp tick) included, get distinct storage filenames.               *)
(***************************************************************************)
C5_FilenamesDistinct ==
  \A i, j \in DOMAIN reqs :
    (i # j /\ reqs[i].doc # << >> /\ reqs[j].doc # << >>
       /\ reqs[i].doc[1].coverImagePath # "")
    => reqs[i].doc[1].coverImagePath # reqs[j].doc[1].coverImagePath

(***************************************************************************)
(* C6: the cover image fields of the document a create request builds and  *)
(* persists.  With an accepted upload coverImagePath is /uploads/<name of   *)
(* the stored file> and coverImageUrl is protocol://host followed by that   *)
(* path, whatever coverImageUrl the form data carries; without one          *)
(* coverImagePath is empty and coverImageUrl is the form data's            *)
(* coverImageUrl verbatim, or empty.  A JSON request never waits for an    *)
(* upload and never sets coverImagePath.                                   *)
(***************************************************************************)
GeneratedNames(file) == {Filename(t, rnd, file) : t \in 0..MaxTime, rnd \in 0..MaxRand}

CoverFieldsOf(r, doc) ==
  IF r.file # << >>
  THEN /\ \E name \in GeneratedNames(r.file[1]) : doc.coverImagePath = "/uploads/" \o name
       /\ doc.coverImageUrl = "http://" \o r.host \o doc.coverImagePath
  ELSE /\ doc.coverImagePath = ""
       /\ doc.coverImageUrl = (IF r.form.coverImageUrl = << >> THEN ""
                                ELSE r.form.coverImageUrl[1])

C6_CoverImageFields ==
  /\ \A i \in DOMAIN reqs :
       /\ reqs[i].doc # << >> => CoverFieldsOf(reqs[i].req, reqs[i].doc[1])
       /\ (IsDone(i) /\ Status(i) = 201) =>
            \E k \in DOMAIN store : store[k] = reqs[i].doc[1]
       /\ reqs[i].req.ctype = JsonType =>
            /\ reqs[i].pc # "uploading"
            /\ reqs[i].doc # << >> => reqs[i].doc[1].coverImagePath = ""
            /\ \A name \in DOMAIN dir : dir[name].owner # i

C6_Witness ==
  \E i \in DOMAIN reqs :
    /\ IsDone(i) /\ Status(i) = 201
    /\ reqs[i].req.file # << >>
    /\ reqs[i].req.form.coverImageUrl # << >>
    /\ \E k \in DOMAIN store : store[k] = reqs[i].doc[1]

(***************************************************************************)
(* C7 as claimed: every create request is answered exactly once, with 201, *)
(* 400 or 500; 400 exactly when the upload step rejected the file for its  *)
(* type or its size, the body carrying the validation message; every other *)
(* failure is answered 500 with the fixed body.                            *)
(***************************************************************************)
TypeOrSizeMessages == {<<FilterMessage>>, <<"File too large">>}

C7_StatusIs201Or400Or500 ==
  \A i \in DOMAIN reqs :
    IsDone(i) =>
      /\ Len(reqs[i].sends) = 1
      /\ Status(i) \in {201, 400, 500}
      /\ Status(i) = 400 <=>
           (reqs[i].req.file # << >> /\ reqs[i].sends[1].error \in TypeOrSizeMessages)
      /\ Status(i) # 201 /\ Status(i) # 400 => reqs[i].sends[1] = ServerError

(***************************************************************************)
(* C7 amended: a create request that reaches the route handler is answered *)
(* exactly once, with 201, 400 or 500; 400 exactly when the upload step    *)
(* reported an error (a file of a disallowed type, an oversize file, or a  *)
(* file under a field other than coverImage), the body carrying that       *)
(* error's message; every other failure in the handler is answered 500     *)
(* with the fixed body.  A JSON request whose body the JSON body parser    *)
(* rejects does not reach the handler: it is answered once, 400 when       *)
(* malformed and 413 when too large, with the framework's error page.      *)
(***************************************************************************)
UploadMayFail(file) ==
  file # << >> /\ \E hit \in LimitHit(file[1].size) : UploadError(file, hit) # ""

UploadMustFail(file) ==
  file # << >> /\ \A hit \in LimitHit(file[1].size) : UploadError(file, hit) # ""

ReachesHandler(r) == IsMultipart(r) \/ r.payload = "object"

C7_OneResponsePerCreate ==
  \A i \in DOMAIN reqs :
    IsDone(i) =>
      /\ Len(reqs[i].sends) = 1
      /\ ReachesHandler(reqs[i].req) =>
           /\ Status(i) \in {201, 400, 500}
           /\ Status(i) = 400 =>
                /\ IsMultipart(reqs[i].req) /\ UploadMayFail(reqs[i].req.file)
                /\ \E hit \in LimitHit(reqs[i].req.file[1].size) :
                     /\ UploadError(reqs[i].req.file, hit) # ""
                     /\ reqs[i].sends[1] = BadRequest(UploadError(reqs[i].req.file, hit))
           /\ (IsMultipart(reqs[i].req) /\ UploadMustFail(reqs[i].req.file)) => Status(i) = 400
           /\ Status(i) = 500 => reqs[i].sends[1] = ServerError
           /\ Status(i) = 201 => reqs[i].sends[1] = Created(reqs[i].doc[1])
      /\ ~ReachesHandler(reqs[i].req) =>
           reqs[i].sends[1] = ErrorPage(IF reqs[i].req.payload = "malformed" THEN 400 ELSE 413)

C7_Witness ==
  \E i \in DOMAIN reqs :
    /\ IsDone(i) /\ Status(i) = 400
    /\ reqs[i].sends[1].error = <<"Unexpected field">>
    /\ FileFilter(reqs[i].req.file[1])

(***************************************************************************)
(* C8: every Project in the Record Store has non-empty title, description  *)
(* and details, and its techStack is a (possibly empty) sequence of        *)
(* strings.                                                                *)
(***************************************************************************)
C8_RequiredFieldsPersisted ==
  \A k \in DOMAIN store :
    /\ Present(store[k].title) /\ Present(store[k].description) /\ Present(store[k].details)
    /\ DOMAIN store[k].techStack = 1..Len(store[k].techStack)
    /\ \A e \in DOMAIN store[k].techStack : store[k].techStack[e] \in STRING

C8_Witness ==
  \E i \in DOMAIN reqs, k \in DOMAIN store :
    /\ IsDone(i) /\ Status(i) = 201
    /\ store[k] = reqs[i].doc[1]
    /\ reqs[i].req.form.techStack = << >>
    /\ store[k].techStack = << >>
    /\ store[k].liveLink = << >>

(***************************************************************************)
(* C9: no step removes or changes a persisted Project; the list, health    *)
(* and static routes leave the Record Store and the content directory as   *)
(* they are; a create request adds at most one record and at most one      *)
(* file.                                                                   *)
(***************************************************************************)
C9_ProjectsAreNeverChanged ==
  [][/\ Len(store') >= Len(store)
     /\ SubSeq(store', 1, Len(store)) = store
     /\ (ListProjects \/ Health \/ Static) => (store' = store /\ dir' = dir)
     /\ \A i \in DOMAIN reqs' :
          /\ Cardinality({k \in DOMAIN store' : store'[k].id = i}) <= 1
          /\ Cardinality({n \in DOMAIN dir' : dir'[n].owner = i}) <= 1]_vars

C9_Witness ==
  /\ Len(store) = 2
  /\ \E n \in DOMAIN dir : dir[n].owner = 2

(***************************************************************************)
(* C10 as claimed: once the create requests have been answered, every file *)
(* in the content directory is referenced by the coverImagePath of a       *)
(* persisted Project.                                                      *)
(***************************************************************************)
C10_NoOrphanFiles ==
  AllDone =>
    \A name \in DOMAIN dir :
      \E k \in DOMAIN store : store[k].coverImagePath = "/uploads/" \o name

====
